---- MODULE Spec2Model ----
(***************************************************************************)
(* A model of the entity registry of ccbot (src/src/entity-registry.ts):   *)
(* the Entity base class, the EntityRegistry, the store it synchronises    *)
(* with, and Node's event loop (promise completions, setImmediate and      *)
(* setTimeout callbacks) as far as the registry uses it.                   *)
(*                                                                         *)
(* Every handler of the source runs to completion, so every action of the  *)
(* model is one whole handler.  The handlers call each other (a save calls *)
(* the store, which calls the change handler, which may call a reset ...), *)
(* so each one is an operator from a machine state (a record of the        *)
(* variables) to a machine state, and an action commits the result.        *)
(***************************************************************************)
EXTENDS Integers, Sequences, FiniteSets, TLC

VARIABLES
    started,                \* EntityRegistry.started
    duringOurModification,  \* EntityRegistry.duringOurModification
    pendingEntityFlush,     \* EntityRegistry.pendingEntityFlush
    entities,               \* EntityRegistry.entities: id -> entity object
    keyOrder,               \* its keys that are no array indices, as inserted
    heap,                   \* the entity objects constructed so far
    entityData,             \* the store's data: a sequence of records
    promises,               \* factory calls that have not settled
    immediates,             \* the setImmediate queue
    now,                    \* new Date().getTime()
    batch,                  \* history: the marks and writes of the current tick
    resetDebt,              \* history: resets that were due minus resets that ran
    last,                   \* history: the handler that ran last and its result
    ops                     \* history: calls made by the registry's callers

vars == <<started, duringOurModification, pendingEntityFlush, entities, keyOrder,
          heap, entityData, promises, immediates, now, batch, resetDebt,
          last, ops>>

----------------------------------------------------------------------------
(* Bounds of the model. *)

\* Calls the registry's callers make (commands, the store's other writers).
MaxOps == 2
\* The last instant of the clock.
Horizon == 1300
\* Factory calls that have not settled.
MaxPending == 2
\* Calls the registry's callers make when the store holds an expiring entity.
MaxExpiryOps == 1
\* The clock when the registry is constructed.
StartTime == 200

(* Program constants. *)

\* The delay of the follow-up check after kill().
KillRetryInterval == 1000

----------------------------------------------------------------------------
(* Values. *)

\* The id of an object that has no 'id' property.
NoId == "<none>"
\* The id of an entity constructed without one: the value undefined, which as
\* a key of the live map is the string "undefined".
Undefined == "undefined"
\* The fixed id the "named" factory gives its entity.
NamedId == "a"
\* The keys of the live map that are no array indices.
NameKeys == {NamedId, Undefined}

\* The factory table.  "named" constructs its entity with the fixed id
\* NamedId, "auto" constructs its entity without an id, "bare" resolves to an
\* object that has no 'id' property, "failing" rejects, "base" constructs an
\* entity of a class that leaves kill() and updated() as Entity has them.
\* "unknown" is a type of records that has no factory.
entityTypes == {"named", "auto", "bare", "failing", "base"}

PastTime == StartTime - 50
FreshTime == StartTime + 100

\* The records the store and the callers use.
RecAuto == [type |-> "auto", createTime |-> 100]
RecBare == [type |-> "bare", createTime |-> 100]
RecNamed == [type |-> "named", createTime |-> 100, killTime |-> 0]
RecExpired == [type |-> "bare", createTime |-> 100, killTime |-> PastTime]
RecFresh == [type |-> "bare", killTime |-> FreshTime]
RecFailing == [type |-> "failing"]
RecUnknown == [type |-> "unknown"]
RecBase == [type |-> "base", createTime |-> 100]
RecNamedExpired == [type |-> "named", createTime |-> 100, killTime |-> PastTime]

\* The records callers pass to newEntity.
SampleRecords == {RecAuto, RecBare, RecNamed, RecFailing, RecUnknown}

\* The snapshots the store is constructed with and its other writers leave.
Snapshots ==
    { <<>>,
      <<RecAuto>>,
      <<RecExpired, RecBare>>,
      <<RecNamed, RecNamed>>,
      <<RecUnknown, RecFailing, RecBare>> }

\* Snapshots with a record that expires after the registry has started.
FreshSnapshots ==
    { <<RecFresh>>,
      <<RecExpired, RecFresh>>,
      <<RecFailing, RecFresh>> }

\* Snapshots whose records lack createTime or killTime.
RoundTripSnapshots ==
    { <<RecBare>>,
      <<RecFailing, RecFresh>> }

\* Snapshots with an entity whose class does not override the hooks and
\* with one that has expired.
HookSnapshots ==
    { <<RecBase>>,
      <<RecExpired>>,
      <<RecNamed, RecBase>> }

\* Snapshots with an entity that has expired: next to one of the same id that
\* stays, alone, and next to one that expires later.
ChainSnapshots ==
    { <<RecNamed, RecNamedExpired>>,
      <<RecExpired>>,
      <<RecFresh, RecExpired>> }

\* Snapshots of records that have no killTime: no save has written them.
ResetSnapshots ==
    { <<RecBare>>,
      <<RecAuto>>,
      <<RecFailing, RecBare>> }

\* The ids callers pass to killEntity.
CallerIds == {"0", NamedId}

EmptyMap == [k \in {} |-> 0]

Without(f, k) == [x \in DOMAIN f \ {k} |-> f[x]]

RemoveAt(q, i) == [j \in 1..(Len(q) - 1) |-> IF j < i THEN q[j] ELSE q[j + 1]]

RemoveKey(q, k) == SelectSeq(q, LAMBDA x : x # k)

----------------------------------------------------------------------------
(* The machine state the handlers work on. *)

\* What a handler did, for the history: its calls of the store's modify, the
\* resets it ran, the factories it called, the onKill hooks it invoked, the
\* rejected promises it left without a handler.
NoCounts ==
    [modify |-> 0, resets |-> 0, factory |-> 0, onKills |-> 0, unhandled |-> 0,
     thrown |-> 0]

Cur ==
    [ started |-> started,
      duringOurModification |-> duringOurModification,
      pendingEntityFlush |-> pendingEntityFlush,
      entities |-> entities,
      keyOrder |-> keyOrder,
      heap |-> heap,
      entityData |-> entityData,
      promises |-> promises,
      immediates |-> immediates,
      now |-> now,
      batch |-> batch,
      resetDebt |-> resetDebt,
      counts |-> NoCounts,
      results |-> <<>> ]

Commit(s, op) ==
    /\ Len(s.promises) <= MaxPending
    /\ started' = s.started
    /\ duringOurModification' = s.duringOurModification
    /\ pendingEntityFlush' = s.pendingEntityFlush
    /\ entities' = s.entities
    /\ keyOrder' = s.keyOrder
    /\ heap' = s.heap
    /\ entityData' = s.entityData
    /\ promises' = s.promises
    /\ immediates' = s.immediates
    /\ now' = s.now
    /\ batch' = s.batch
    /\ resetDebt' = s.resetDebt
    /\ last' = [op |-> op, did |-> s.counts, results |-> s.results]

----------------------------------------------------------------------------
(* Node's event loop. *)

\* setImmediate(cb): cb joins the queue of the check phase.
SetImmediate(s, cb) == [s EXCEPT !.immediates = Append(@, cb)]

\* setTimeout(cb, delay) of an entity's check: it is due at now + delay.
SetTimeout(s, v, delay) == [s EXCEPT !.heap[v].timers = @ \cup {s.now + delay}]

----------------------------------------------------------------------------
(* The live map as a JavaScript object. *)

\* The keys of the live map in the order of a for-in loop: the array indices
\* ascending, then the other keys in the order of their insertion.
RECURSIVE NumericKeysFrom(_, _, _)
NumericKeysFrom(f, n, max) ==
    IF n > max THEN <<>>
    ELSE (IF ToString(n) \in DOMAIN f THEN <<ToString(n)>> ELSE <<>>)
         \o NumericKeysFrom(f, n + 1, max)

KeysInOrder(s) ==
    NumericKeysFrom(s.entities, 0, Len(s.heap)) \o s.keyOrder

\* delete this.entities[id]
DeleteKey(s, id) ==
    [s EXCEPT !.entities = Without(@, id), !.keyOrder = RemoveKey(@, id)]

\* this.entities[id] = v
PutKey(s, id, v) ==
    [s EXCEPT !.entities = (id :> v) @@ @,
              !.keyOrder = IF id \in NameKeys /\ id \notin DOMAIN s.entities
                           THEN Append(@, id) ELSE @]

----------------------------------------------------------------------------
(* Entity. *)

\* A constructor that leaves createTime at 0 when the record has none.
NewEntityObjectUnstamped(s, id, data) ==
    LET killTime == IF "killTime" \in DOMAIN data THEN data.killTime ELSE 0
        obj == [ type |-> data.type,
                 id |-> id,
                 createTime |-> IF "createTime" \in DOMAIN data
                                THEN data.createTime ELSE 0,
                 killTime |-> killTime,
                 killed |-> FALSE,
                 timers |-> {},
                 onKills |-> 0,
                 onKillLive |-> FALSE,
                 inserted |-> FALSE ]
        v == Len(s.heap) + 1
        s1 == [s EXCEPT !.heap = Append(@, obj)]
    IN  IF killTime # 0 THEN SetImmediate(s1, [cb |-> "check", obj |-> v]) ELSE s1

\* A constructor that stamps every entity with the time of its construction.
NewEntityObjectStamped(s, id, data) ==
    LET killTime == IF "killTime" \in DOMAIN data THEN data.killTime ELSE 0
        obj == [ type |-> data.type,
                 id |-> id,
                 createTime |-> s.now,
                 killTime |-> killTime,
                 killed |-> FALSE,
                 timers |-> {},
                 onKills |-> 0,
                 onKillLive |-> FALSE,
                 inserted |-> FALSE ]
        v == Len(s.heap) + 1
        s1 == [s EXCEPT !.heap = Append(@, obj)]
    IN  IF killTime # 0 THEN SetImmediate(s1, [cb |-> "check", obj |-> v]) ELSE s1

\* new Entity(c, id, data)
NewEntityObject(s, id, data) ==
    LET killTime == IF "killTime" \in DOMAIN data THEN data.killTime ELSE 0
        obj == [ type |-> data.type,
                 id |-> id,
                 createTime |-> IF "createTime" \in DOMAIN data
                                THEN data.createTime ELSE s.now,
                 killTime |-> killTime,
                 killed |-> FALSE,
                 timers |-> {},
                 onKills |-> 0,
                 onKillLive |-> FALSE,
                 inserted |-> FALSE ]
        v == Len(s.heap) + 1
        s1 == [s EXCEPT !.heap = Append(@, obj)]
    IN  IF killTime # 0 THEN SetImmediate(s1, [cb |-> "check", obj |-> v]) ELSE s1

\* Entity.toSaveData(): 'killTime' in this holds of every entity object.
ToSaveData(e) ==
    [type |-> e.type, createTime |-> e.createTime, killTime |-> e.killTime]

\* Entity.onKill(): the hook; the history keeps how often it ran and whether
\* the entity was still in the live map when it did.
OnKill(s, v) ==
    [s EXCEPT !.heap[v].onKills = @ + 1,
              !.counts.onKills = @ + 1,
              !.heap[v].onKillLive =
                  @ \/ (\E k \in DOMAIN s.entities : s.entities[k] = v)]

----------------------------------------------------------------------------
(* EntityRegistry. *)

\* The history of the current tick: the marks made on a started registry.
NoteMark(s) ==
    IF s.started THEN [s EXCEPT !.batch.marks = @ + 1] ELSE s

\* EntityRegistry.markPendingFlush(); its deferred callback is FlushCallback.
MarkPendingFlush(s) ==
    SetImmediate([NoteMark(s) EXCEPT !.pendingEntityFlush = TRUE], [cb |-> "flush"])

\* A kill that leaves the entity in the live map.
KillOneKept(s, id) ==
    LET v == s.entities[id]
    IN  OnKill([s EXCEPT !.heap[v].killed = TRUE], v)

\* A kill that invokes the hook before it removes the entity.
KillOneHookFirst(s, id) ==
    LET v == s.entities[id]
        s1 == OnKill([s EXCEPT !.heap[v].killed = TRUE], v)
    IN  DeleteKey(s1, id)

\* The body of killEntity and of killAllEntities' loop for one key.
KillOne(s, id) ==
    LET v == s.entities[id]
        s1 == [s EXCEPT !.heap[v].killed = TRUE]
    IN  OnKill(DeleteKey(s1, id), v)

\* EntityRegistry.killEntity(id)
KillEntity(s, id) ==
    MarkPendingFlush(IF id \in DOMAIN s.entities THEN KillOne(s, id) ELSE s)

RECURSIVE KillKeys(_, _)
KillKeys(s, keys) ==
    IF keys = <<>> THEN s
    ELSE KillKeys(IF Head(keys) \in DOMAIN s.entities
                  THEN KillOne(s, Head(keys)) ELSE s, Tail(keys))

\* A killAllEntities that stops after the first entity.
KillAllEntitiesFirstOnly(s) ==
    LET keys == KeysInOrder(s)
    IN  MarkPendingFlush(KillKeys(s, IF keys = <<>> THEN keys ELSE <<Head(keys)>>))

\* A killAllEntities that also gives up the constructions that are pending.
KillAllEntitiesCancelling(s) ==
    [MarkPendingFlush(KillKeys(s, KeysInOrder(s))) EXCEPT !.promises = <<>>]

\* EntityRegistry.killAllEntities()
KillAllEntities(s) ==
    MarkPendingFlush(KillKeys(s, KeysInOrder(s)))

Reject(s) == [s EXCEPT !.results = Append(@, [kind |-> "rejected"])]

\* The factory of a type: the id it constructs its entity with.
FactoryId(type) == IF type = "named" THEN NamedId ELSE Undefined

\* this.entityTypes[data.type](this.client, data): a factory constructs its
\* entity in the call and returns a promise; the "bare" one deletes the id
\* of what it constructed, the "failing" one constructs nothing and its
\* promise rejects.  kept: the caller of newEntity holds on to the promise
\* newEntity returns and handles its rejection.
FactoryCall(s, data) ==
    IF data.type = "failing"
    THEN [s EXCEPT !.promises = Append(@, [data |-> data, obj |-> 0, kept |-> TRUE])]
    ELSE LET s1 == NewEntityObject(s, FactoryId(data.type), data)
             v == Len(s1.heap)
             s2 == IF data.type = "bare" THEN [s1 EXCEPT !.heap[v].id = NoId] ELSE s1
         IN  [s2 EXCEPT !.promises = Append(@, [data |-> data, obj |-> v, kept |-> TRUE])]

\* A newEntity that puts the entity in the live map when it calls the factory.
NewEntityInsertsAtCall(s, data) ==
    IF ~s.started THEN Reject(s)
    ELSE IF data.type \in entityTypes
         THEN LET s1 == FactoryCall([s EXCEPT !.counts.factory = @ + 1], data)
                  v == s1.promises[Len(s1.promises)].obj
              IN  IF v = 0 THEN s1 ELSE PutKey(s1, FactoryId(data.type), v)
         ELSE Reject(s)

\* A newEntity that does not look at the started flag.
NewEntityUnstarted(s, data) ==
    IF data.type \in entityTypes
    THEN FactoryCall([s EXCEPT !.counts.factory = @ + 1], data)
    ELSE Reject(s)

\* EntityRegistry.newEntity(data), up to the call of the factory.
NewEntity(s, data) ==
    IF ~s.started THEN Reject(s)
    ELSE IF data.type \in entityTypes
         THEN FactoryCall([s EXCEPT !.counts.factory = @ + 1], data)
         ELSE Reject(s)

\* A rejected promise that has no handler: Node raises an unhandled rejection.
Unhandled(s) == [s EXCEPT !.counts.unhandled = @ + 1]

\* this.newEntity(entity); as a statement: the promise it returns is dropped,
\* rejected already (s1 has one more result than s) or not yet settled.
NewEntityDropped(s, data) ==
    LET s1 == NewEntity(s, data)
        n == Len(s1.promises)
    IN  IF Len(s1.results) > Len(s.results) THEN Unhandled(s1)
        ELSE IF n > Len(s.promises) THEN [s1 EXCEPT !.promises[n].kept = FALSE]
        ELSE s1

RECURSIVE NewEntities(_, _)
NewEntities(s, records) ==
    IF records = <<>> THEN s
    ELSE NewEntities(NewEntityDropped(s, Head(records)), Tail(records))

\* EntityRegistry.resetEntities()
ResetEntities(s) ==
    IF ~s.started THEN s
    ELSE LET s1 == KillAllEntities([s EXCEPT !.counts.resets = @ + 1,
                                             !.resetDebt = @ - 1])
             s2 == NewEntities(s1, s1.entityData)
         IN  [s2 EXCEPT !.pendingEntityFlush = FALSE,
                        !.batch = s.batch]

\* A change handler that never resets.
OnModifyIgnored(s) == s

\* A change handler that does not look at the reentrancy guard.
OnModifyUnguarded(s) ==
    IF s.started THEN ResetEntities(s) ELSE s

\* The callback the constructor gives to entityData.onModify.
OnModify(s) ==
    IF s.started
    THEN (IF ~s.duringOurModification THEN ResetEntities(s) ELSE s)
    ELSE s

\* DynamicData.modify(fn) (dynamic-data.ts is not among the sources: from the
\* spec's store contract): fn replaces the data, then the subscribers run,
\* before modify returns.
Modify(s, newData) ==
    OnModify([s EXCEPT !.entityData = newData])

RECURSIVE SavedRecords(_, _)
SavedRecords(s, keys) ==
    IF keys = <<>> THEN <<>>
    ELSE <<ToSaveData(s.heap[s.entities[Head(keys)]])>> \o SavedRecords(s, Tail(keys))

\* A save that pushes its records behind the ones the snapshot holds.
SaveToDynamicDataAppending(s) ==
    IF ~s.started THEN s
    ELSE LET s1 == [s EXCEPT !.duringOurModification = TRUE,
                             !.counts.modify = @ + 1,
                             !.batch.writes = @ + 1]
             s2 == Modify(s1, s1.entityData \o SavedRecords(s1, KeysInOrder(s1)))
         IN  [s2 EXCEPT !.duringOurModification = FALSE,
                        !.pendingEntityFlush = FALSE]

\* EntityRegistry.saveToDynamicData()
SaveToDynamicData(s) ==
    IF ~s.started THEN s
    ELSE LET s1 == [s EXCEPT !.duringOurModification = TRUE,
                             !.counts.modify = @ + 1,
                             !.batch.writes = @ + 1]
             s2 == Modify(s1, SavedRecords(s1, KeysInOrder(s1)))
         IN  [s2 EXCEPT !.duringOurModification = FALSE,
                        !.pendingEntityFlush = FALSE]

\* A start that does not look at the started flag.
StartAgain(s) == ResetEntities([s EXCEPT !.started = TRUE])

\* EntityRegistry.start()
Start(s) ==
    IF s.started THEN s
    ELSE ResetEntities([s EXCEPT !.started = TRUE])

\* The loop of newEntity that finds an id for an entity without one.
RECURSIVE FreeId(_, _)
FreeId(f, idn) ==
    IF ToString(idn) \in DOMAIN f THEN FreeId(f, idn + 1) ELSE ToString(idn)

\* let nid = '0'; let idn = 0; while (nid in this.entities) ...
NewId(f) == FreeId(f, 0)

\* An insertion that does not kill the entity live under the id.
FactoryResolvedOver(s, v) ==
    LET hadId == s.heap[v].id # NoId
        nid == IF hadId THEN s.heap[v].id ELSE NewId(s.entities)
        s3 == PutKey([s EXCEPT !.heap[v].id = nid, !.heap[v].inserted = TRUE], nid, v)
        s4 == MarkPendingFlush(s3)
    IN  [s4 EXCEPT !.results =
            Append(@, [kind |-> "resolved", obj |-> v, id |-> nid, hadId |-> hadId,
                       before |-> DOMAIN s.entities,
                       replaced |-> IF nid \in DOMAIN s.entities
                                    THEN s.entities[nid] ELSE 0])]

\* An insertion that calls killEntity after it has put the entity in the map.
FactoryResolvedKillAfter(s, v) ==
    LET hadId == s.heap[v].id # NoId
        nid == IF hadId THEN s.heap[v].id ELSE NewId(s.entities)
        s1 == [s EXCEPT !.heap[v].id = nid]
        s2 == PutKey([s1 EXCEPT !.heap[v].inserted = TRUE], nid, v)
        s3 == KillEntity(s2, nid)
        s4 == MarkPendingFlush(s3)
    IN  [s4 EXCEPT !.results =
            Append(@, [kind |-> "resolved", obj |-> v, id |-> nid, hadId |-> hadId,
                       before |-> DOMAIN s.entities,
                       replaced |-> IF nid \in DOMAIN s.entities
                                    THEN s.entities[nid] ELSE 0])]

\* An insertion that gives way to the entity live under the id.
FactoryResolvedFirstWins(s, v) ==
    LET hadId == s.heap[v].id # NoId
        nid == IF hadId THEN s.heap[v].id ELSE NewId(s.entities)
        s1 == [s EXCEPT !.heap[v].id = nid]
        s3 == IF nid \in DOMAIN s.entities
              THEN [s1 EXCEPT !.heap[v].killed = TRUE]
              ELSE PutKey([s1 EXCEPT !.heap[v].inserted = TRUE], nid, v)
        s4 == MarkPendingFlush(s3)
    IN  [s4 EXCEPT !.results =
            Append(@, [kind |-> "resolved", obj |-> v, id |-> nid, hadId |-> hadId,
                       before |-> DOMAIN s.entities,
                       replaced |-> IF nid \in DOMAIN s.entities
                                    THEN s.entities[nid] ELSE 0])]

\* The callback newEntity gives to the factory's promise for its result v;
\* hadId is 'id' in newEnt.
FactoryResolved(s, v) ==
    LET hadId == s.heap[v].id # NoId
        nid == IF hadId THEN s.heap[v].id ELSE NewId(s.entities)
        s1 == [s EXCEPT !.heap[v].id = nid]
        s2 == KillEntity(s1, nid)
        s3 == PutKey([s2 EXCEPT !.heap[v].inserted = TRUE], nid, v)
        s4 == MarkPendingFlush(s3)
    IN  [s4 EXCEPT !.results =
            Append(@, [kind |-> "resolved", obj |-> v, id |-> nid, hadId |-> hadId,
                       before |-> DOMAIN s.entities,
                       replaced |-> IF nid \in DOMAIN s.entities
                                    THEN s.entities[nid] ELSE 0])]

\* A rejection callback that marks a pending flush.
FactoryRejectedMarks(s) == MarkPendingFlush(Reject(s))

\* The callback newEntity gives to the factory's promise for its failure.
FactoryRejected(s) == Reject(s)

\* CCBotEntity.kill() (ccbot.ts is not among the sources: from the spec's
\* section 4.1): bound to killEntity(this.id), and nothing once killed.  The
\* id of an object that has no 'id' property reads as undefined.
EntityKill(s, v) ==
    IF s.heap[v].killed THEN s
    ELSE KillEntity(s, IF s.heap[v].id = NoId THEN Undefined ELSE s.heap[v].id)

\* CCBotEntity.updated() (from the spec's section 4.1): bound to
\* markPendingFlush(), and nothing once killed.
EntityUpdated(s, v) ==
    IF s.heap[v].killed THEN s ELSE MarkPendingFlush(s)

\* throw new Error(...): the error leaves the handler.
Throw(s) == [s EXCEPT !.counts.thrown = @ + 1]

\* Entity.kill()
Kill(s, v) == Throw(s)

\* Entity.updated()
Updated(s, v) == Throw(s)

\* this.kill(): the method of the entity's class.
ThisKill(s, v) ==
    IF s.heap[v].type = "base" THEN Kill(s, v) ELSE EntityKill(s, v)

\* this.updated(): the method of the entity's class.
ThisUpdated(s, v) ==
    IF s.heap[v].type = "base" THEN Updated(s, v) ELSE EntityUpdated(s, v)

\* A check that does not look at the killed flag.
EntityCheckOfDead(s, v) ==
    IF s.heap[v].killTime = 0 THEN s
    ELSE IF s.now >= s.heap[v].killTime
         THEN SetTimeout(EntityKill(s, v), v, KillRetryInterval)
         ELSE SetTimeout(s, v, s.heap[v].killTime - s.now)

\* A check that kills without looking at the clock.
EntityCheckEarly(s, v) ==
    IF s.heap[v].killed THEN s
    ELSE IF s.heap[v].killTime = 0 THEN s
    ELSE SetTimeout(EntityKill(s, v), v, KillRetryInterval)

\* A check that kills only after killTime has passed.
EntityCheckLate(s, v) ==
    IF s.heap[v].killed THEN s
    ELSE IF s.heap[v].killTime = 0 THEN s
    ELSE IF s.now > s.heap[v].killTime
         THEN SetTimeout(EntityKill(s, v), v, KillRetryInterval)
         ELSE SetTimeout(s, v, s.heap[v].killTime - s.now)

\* Entity.entityCheckIfShouldKill()
EntityCheckIfShouldKill(s, v) ==
    IF s.heap[v].killed THEN s
    ELSE IF s.heap[v].killTime = 0 THEN s
    ELSE IF s.now >= s.heap[v].killTime
         THEN LET s1 == ThisKill(s, v)
              IN  IF s1.counts.thrown > s.counts.thrown THEN s1
                  ELSE SetTimeout(s1, v, KillRetryInterval)
         ELSE SetTimeout(s, v, s.heap[v].killTime - s.now)

\* A deferred callback that saves nothing.
FlushCallbackIdle(s) == s

\* The deferred callback of markPendingFlush.
FlushCallback(s) ==
    IF s.pendingEntityFlush THEN SaveToDynamicData(s) ELSE s

----------------------------------------------------------------------------
(* The state after new EntityRegistry(c, data): nothing started, the store *)
(* holding any snapshot.                                                   *)

IdleBatch == [marks |-> 0, writes |-> 0]

Init ==
    /\ started = FALSE
    /\ duringOurModification = FALSE
    /\ pendingEntityFlush = FALSE
    /\ entities = EmptyMap
    /\ keyOrder = <<>>
    /\ heap = <<>>
    /\ entityData \in Snapshots
    /\ promises = <<>>
    /\ immediates = <<>>
    /\ now = StartTime
    /\ batch = IdleBatch
    /\ resetDebt = 0
    /\ last = [op |-> "init", did |-> NoCounts, results |-> <<>>]
    /\ ops = 0

\* The promise of the "failing" factory is rejected when the call returns:
\* its callback is a microtask, which runs before the event loop's next step.
MicrotaskPending == \E i \in 1..Len(promises) : promises[i].data.type = "failing"

\* A step of the event loop that is no microtask.
Macrotask == ~MicrotaskPending /\ ops' = ops

\* A call by one of the registry's callers.
Called == ~MicrotaskPending /\ ops < MaxOps /\ ops' = ops + 1

----------------------------------------------------------------------------
(* The calls of the registry's callers. *)

\* A reset is due: for the first start(), for a change of the store that is
\* not the registry's own write, for a caller's resetEntities() once started.
ResetDue(s, due) == IF due THEN [s EXCEPT !.resetDebt = @ + 1] ELSE s

CallStart ==
    /\ Called
    /\ Commit(Start(ResetDue(Cur, ~started)), "start")

CallNewEntity ==
    /\ Called
    /\ \E data \in SampleRecords : Commit(NewEntity(Cur, data), "newEntity")

\* newEntity(e.toSaveData()) for an entity e that has been constructed.
CallNewEntitySaved ==
    /\ Called
    /\ \E v \in 1..Len(heap) :
           Commit(NewEntity([Cur EXCEPT !.results = <<[kind |-> "saved", obj |-> v]>>],
                            ToSaveData(heap[v])),
                  "newEntitySaved")

CallKillEntity ==
    /\ Called
    /\ \E id \in CallerIds :
           Commit(KillEntity([Cur EXCEPT !.results =
                                  <<[kind |-> "call", id |-> id,
                                     live |-> id \in DOMAIN entities]>>], id),
                  "killEntity")

CallKillAllEntities ==
    /\ Called
    /\ Commit(KillAllEntities(Cur), "killAllEntities")

CallResetEntities ==
    /\ Called
    /\ Commit(ResetEntities(ResetDue(Cur, started)), "resetEntities")

\* What a hook called on entity v finds: whether v is killed, the flag, the
\* queue of deferred callbacks and the keys of the live map.
HookCall(s, v) ==
    [s EXCEPT !.results = <<[kind |-> "hook", obj |-> v,
                             dead |-> s.heap[v].killed,
                             flag |-> s.pendingEntityFlush,
                             queued |-> Len(s.immediates),
                             live |-> DOMAIN s.entities]>>]

\* A callback of an entity calls this.kill().
EntityCallsKill ==
    /\ Called
    /\ \E v \in 1..Len(heap) : Commit(ThisKill(HookCall(Cur, v), v), "kill")

\* A callback of an entity calls this.updated().
EntityCallsUpdated ==
    /\ Called
    /\ \E v \in 1..Len(heap) : Commit(ThisUpdated(HookCall(Cur, v), v), "updated")

\* markPendingFlush(), as a live entity's updated() calls it.
CallMarkPendingFlush ==
    /\ Called
    /\ Commit(MarkPendingFlush(Cur), "markPendingFlush")

\* A direct saveToDynamicData() is no part of the tick's deferred flush.
CallSaveToDynamicData ==
    /\ Called
    /\ Commit([SaveToDynamicData(Cur) EXCEPT !.batch = IdleBatch], "saveToDynamicData")

\* Another writer of the store replaces the snapshot; the store notifies.
ExternalModify ==
    /\ Called
    /\ \E snapshot \in Snapshots :
           Commit(Modify(ResetDue(Cur, started), snapshot), "notify")

----------------------------------------------------------------------------
(* The event loop's steps. *)

\* A factory's promise resolves with the entity it constructed.
FactoryResolve ==
    /\ Macrotask
    /\ \E i \in 1..Len(promises) :
           /\ promises[i].obj # 0
           /\ Commit(FactoryResolved([Cur EXCEPT !.promises = RemoveAt(@, i)],
                                     promises[i].obj), "resolve")

\* A factory's promise rejects.
FactoryReject ==
    /\ ops' = ops
    /\ \E i \in 1..Len(promises) :
           /\ promises[i].data.type = "failing"
           /\ LET s1 == FactoryRejected([Cur EXCEPT !.promises = RemoveAt(@, i)])
              IN  Commit(IF promises[i].kept THEN s1 ELSE Unhandled(s1), "reject")

\* One callback of the setImmediate queue.
RunCallback(s, cb) ==
    IF cb.cb = "flush" THEN FlushCallback(s) ELSE EntityCheckIfShouldKill(s, cb.obj)

RECURSIVE RunCallbacks(_, _)
RunCallbacks(s, queue) ==
    IF queue = <<>> THEN s
    ELSE RunCallbacks(RunCallback(s, Head(queue)), Tail(queue))

\* The event loop's check phase: it runs the setImmediate callbacks queued
\* before it began, in their order; what they queue waits for the next one.
\* The history keeps the marks made in the tick the phase ends (marks), the
\* marks made by the phase's own callbacks (inner) and the phase's writes.
CheckPhase ==
    /\ Macrotask
    /\ immediates # <<>>
    /\ LET s1 == RunCallbacks([Cur EXCEPT !.immediates = <<>>, !.batch = IdleBatch],
                              immediates)
       IN  Commit([s1 EXCEPT !.batch = IdleBatch,
                             !.results = <<[kind |-> "phase",
                                            marks |-> batch.marks,
                                            inner |-> s1.batch.marks,
                                            writes |-> s1.batch.writes]>>],
                  "immediates")

\* A timer of an entity's check chain fires.
FireTimer ==
    /\ Macrotask
    /\ \E v \in 1..Len(heap) : \E t \in heap[v].timers :
           /\ now >= t
           /\ Commit(EntityCheckIfShouldKill(
                         [Cur EXCEPT !.heap[v].timers = @ \ {t},
                                     !.results = <<[kind |-> "fired", obj |-> v]>>], v),
                     "timer")

\* The instants at which an entity's check can do something new.
TimeTargets ==
    UNION { heap[v].timers : v \in 1..Len(heap) }
    \cup { heap[v].killTime : v \in {w \in 1..Len(heap) : ~heap[w].killed} }

\* Time passes, up to the next instant some check waits for.
AdvanceTime ==
    /\ Macrotask
    /\ \E t \in TimeTargets :
           /\ t > now
           /\ t <= Horizon
           /\ Commit([Cur EXCEPT !.now = t], "time")

Next ==
    \/ CallStart
    \/ ExternalModify
    \/ CallNewEntity
    \/ CallKillEntity
    \/ CallKillAllEntities
    \/ CallResetEntities
    \/ CallMarkPendingFlush
    \/ CallSaveToDynamicData
    \/ FactoryResolve
    \/ FactoryReject
    \/ CheckPhase
    \/ FireTimer
    \/ AdvanceTime

Spec == Init /\ [][Next]_vars

\* The check phase can run: a callback is queued and no microtask is pending.
\* CheckPhase adds no factory call and empties the queue it was given, so this
\* is ENABLED <<CheckPhase>>_vars.
CheckPhaseEnabled == ~MicrotaskPending /\ immediates # <<>>

\* The event loop runs what is queued and due, the clock moves on, and every
\* promise of a factory settles in the end.  The last conjunct is
\* WF_vars(CheckPhase) with its enabling condition written out.
Fairness ==
    /\ WF_vars(FactoryResolve)
    /\ WF_vars(FactoryReject)
    /\ WF_vars(FireTimer)
    /\ WF_vars(AdvanceTime)
    /\ ([]<>(~CheckPhaseEnabled) \/ []<><<CheckPhase>>_vars)

FairSpec == Init /\ [][Next]_vars /\ Fairness

\* The registry constructed on a store that holds an entity which expires
\* later, with fewer calls left to its callers.
ExpiryInit ==
    /\ started = FALSE
    /\ duringOurModification = FALSE
    /\ pendingEntityFlush = FALSE
    /\ entities = EmptyMap
    /\ keyOrder = <<>>
    /\ heap = <<>>
    /\ entityData \in FreshSnapshots
    /\ promises = <<>>
    /\ immediates = <<>>
    /\ now = StartTime
    /\ batch = IdleBatch
    /\ resetDebt = 0
    /\ last = [op |-> "init", did |-> NoCounts, results |-> <<>>]
    /\ ops = MaxOps - MaxExpiryOps

ExpirySpec == ExpiryInit /\ [][Next]_vars

\* The registry whose entities never call updated(): every markPendingFlush()
\* comes from killEntity, killAllEntities or an insertion.
MutationNext ==
    \/ CallStart
    \/ ExternalModify
    \/ CallNewEntity
    \/ CallKillEntity
    \/ CallKillAllEntities
    \/ CallResetEntities
    \/ CallSaveToDynamicData
    \/ FactoryResolve
    \/ FactoryReject
    \/ CheckPhase
    \/ FireTimer
    \/ AdvanceTime

MutationSpec == Init /\ [][MutationNext]_vars

\* The registry whose callers pass the save data of its entities back to
\* newEntity.
RoundTripInit ==
    /\ started = FALSE
    /\ duringOurModification = FALSE
    /\ pendingEntityFlush = FALSE
    /\ entities = EmptyMap
    /\ keyOrder = <<>>
    /\ heap = <<>>
    /\ entityData \in RoundTripSnapshots
    /\ promises = <<>>
    /\ immediates = <<>>
    /\ now = StartTime
    /\ batch = IdleBatch
    /\ resetDebt = 0
    /\ last = [op |-> "init", did |-> NoCounts, results |-> <<>>]
    /\ ops = 0

RoundTripNext ==
    \/ CallStart
    \/ CallNewEntitySaved
    \/ FactoryResolve
    \/ FactoryReject
    \/ CheckPhase
    \/ FireTimer
    \/ AdvanceTime

RoundTripSpec == RoundTripInit /\ [][RoundTripNext]_vars

\* The registry whose entities call their kill() and updated() hooks.
HookInit ==
    /\ started = FALSE
    /\ duringOurModification = FALSE
    /\ pendingEntityFlush = FALSE
    /\ entities = EmptyMap
    /\ keyOrder = <<>>
    /\ heap = <<>>
    /\ entityData \in HookSnapshots
    /\ promises = <<>>
    /\ immediates = <<>>
    /\ now = StartTime
    /\ batch = IdleBatch
    /\ resetDebt = 0
    /\ last = [op |-> "init", did |-> NoCounts, results |-> <<>>]
    /\ ops = 0

HookNext ==
    \/ CallStart
    \/ EntityCallsKill
    \/ EntityCallsUpdated
    \/ FactoryResolve
    \/ CheckPhase
    \/ FireTimer
    \/ AdvanceTime

HookSpec == HookInit /\ [][HookNext]_vars

\* The registry whose callers only start and reset it, on a store that no
\* other writer changes.
ResetInit ==
    /\ started = FALSE
    /\ duringOurModification = FALSE
    /\ pendingEntityFlush = FALSE
    /\ entities = EmptyMap
    /\ keyOrder = <<>>
    /\ heap = <<>>
    /\ entityData \in ResetSnapshots
    /\ promises = <<>>
    /\ immediates = <<>>
    /\ now = StartTime
    /\ batch = IdleBatch
    /\ resetDebt = 0
    /\ last = [op |-> "init", did |-> NoCounts, results |-> <<>>]
    /\ ops = 0

ResetNext ==
    \/ CallStart
    \/ CallResetEntities
    \/ FactoryResolve
    \/ FactoryReject
    \/ CheckPhase

ResetSpec == ResetInit /\ [][ResetNext]_vars

\* The registry constructed on a store that holds an expired entity; its
\* callers start it, the factories take their time, the checks run.
ChainInit ==
    /\ started = FALSE
    /\ duringOurModification = FALSE
    /\ pendingEntityFlush = FALSE
    /\ entities = EmptyMap
    /\ keyOrder = <<>>
    /\ heap = <<>>
    /\ entityData \in ChainSnapshots
    /\ promises = <<>>
    /\ immediates = <<>>
    /\ now = StartTime
    /\ batch = IdleBatch
    /\ resetDebt = 0
    /\ last = [op |-> "init", did |-> NoCounts, results |-> <<>>]
    /\ ops = MaxOps - MaxExpiryOps

ChainNext ==
    \/ CallStart
    \/ FactoryResolve
    \/ CheckPhase
    \/ FireTimer
    \/ AdvanceTime

ChainSpec == ChainInit /\ [][ChainNext]_vars

----------------------------------------------------------------------------
(* Properties. *)

LiveObjects == { entities[k] : k \in DOMAIN entities }

Objects == 1..Len(heap)

\* The result of the handler that ran last.
Result == last.results[1]

\* C1: once started, the change notification the registry's own write raises
\* inside the store's modify runs no reset: a step in which the registry
\* writes runs no reset and calls no factory, and a saveToDynamicData() leaves
\* the live map, the entity objects and their killed flags as they were.
C1_OwnWriteRunsNoReset ==
    [][ /\ last'.did.modify > 0 => last'.did.resets = 0 /\ last'.did.factory = 0
        /\ last'.op = "saveToDynamicData" =>
               /\ entities' = entities
               /\ heap' = heap
               /\ promises' = promises
        /\ last'.op = "immediates" /\ last'.did.onKills = 0 =>
               entities' = entities ]_vars

C1_Witness ==
    /\ started
    /\ last.op = "immediates"
    /\ last.did.modify = 1
    /\ entities # EmptyMap

\* C2: the marks that kill and create calls make on a started registry in one
\* tick are answered by exactly one call of the store's modify when the
\* tick's deferred callbacks run.
C2_OneWritePerTick ==
    last.op = "immediates" /\ Result.marks >= 1 /\ Result.inner = 0
        => Result.writes = 1

\* C3: before start() the live map is empty, no factory has been called (no
\* entity object and no promise exists), no handler ran a reset, an onKill
\* hook or a call of the store's modify, and a newEntity is rejected.
C3_NothingBeforeStart ==
    ~started =>
        /\ entities = EmptyMap
        /\ heap = <<>>
        /\ promises = <<>>
        /\ last.did = NoCounts
        /\ last.op = "newEntity" => last.results = <<[kind |-> "rejected"]>>

C3_Witness ==
    /\ ~started
    /\ ops = MaxOps
    /\ last.op = "newEntity"
    /\ pendingEntityFlush

\* C4: the first start() sets started and runs one reset; a start() on a
\* started registry runs no reset, kills and constructs nothing and leaves the
\* registry as it was; started never returns to false.
C4_StartOnce ==
    [][ /\ started => started'
        /\ last'.op = "start" /\ ~started =>
               started' /\ last'.did.resets = 1
        /\ last'.op = "start" /\ started =>
               /\ last'.did = NoCounts
               /\ UNCHANGED <<entities, heap, promises, immediates, entityData,
                              pendingEntityFlush, duringOurModification>> ]_vars

C4_Witness ==
    /\ started
    /\ last.op = "start"
    /\ last.did.resets = 0
    /\ entities # EmptyMap

\* C5: every reset that was due has run and no other: one for the first
\* start(), one for each change of the store made by another writer once
\* started (and for each resetEntities() a caller makes), none for the
\* registry's own writes.
C5_ResetsMatchNotifications ==
    /\ resetDebt = 0
    /\ last.op = "notify" => last.did.resets = (IF started THEN 1 ELSE 0)
    /\ last.op \in {"immediates", "saveToDynamicData"} => last.did.resets = 0

C5_Witness ==
    /\ started
    /\ last.op = "notify"
    /\ last.did.resets = 1
    /\ ops = MaxOps

\* C6: a construction that completes for an id that is live kills the entity
\* live under it (killed, out of the map, onKill invoked) and leaves the new
\* entity as the entry of that id, and resolves; and no two entity objects
\* are live (inserted and not killed) under one id: the one that is, is the
\* map's entry.
C6_LastInsertionWins ==
    /\ \A v \in Objects :
           heap[v].inserted /\ ~heap[v].killed =>
               heap[v].id \in DOMAIN entities /\ entities[heap[v].id] = v
    /\ last.op = "resolve" =>
           /\ Result.kind = "resolved"
           /\ Result.id \in DOMAIN entities
           /\ entities[Result.id] = Result.obj
           /\ Result.replaced # 0 =>
                  /\ Result.replaced # Result.obj
                  /\ heap[Result.replaced].killed
                  /\ heap[Result.replaced].onKills = 1
                  /\ Result.replaced \notin LiveObjects

C6_Witness ==
    /\ last.op = "resolve"
    /\ Result.replaced # 0

\* C7: a killed entity is not in the live map, the entities of the live map
\* are not killed, and killed never goes from true back to false.
C7_KilledIsOutAndStays ==
    /\ [](\A v \in Objects : heap[v].killed => v \notin LiveObjects)
    /\ [][\A v \in Objects : heap[v].killed => heap'[v].killed]_vars

C7_Witness ==
    \E v \in Objects : heap[v].killed /\ heap[v].inserted /\ entities # EmptyMap

\* C8: onKill runs at most once for an entity, never while the entity is
\* still in the live map, not for an entity that is live or was never
\* inserted, and once for an entity that has left the live map.
C8_OnKillOnce ==
    \A v \in Objects :
        /\ heap[v].onKills <= 1
        /\ ~heap[v].onKillLive
        /\ v \in LiveObjects => heap[v].onKills = 0
        /\ ~heap[v].inserted => heap[v].onKills = 0
        /\ heap[v].inserted /\ v \notin LiveObjects => heap[v].onKills = 1

C8_Witness ==
    /\ last.op \in {"immediates", "timer"}
    /\ last.did.onKills = 1
    /\ \E v \in Objects : heap[v].onKills = 1 /\ heap[v].killTime # 0

\* C9: killEntity(id) on a started registry for an id that is not in the live
\* map changes nothing: not the live map, not the pending-flush flag, not
\* the scheduled callbacks.
C9_KillOfAbsentIdIsNoOp ==
    [][ last'.op = "killEntity" /\ started /\ ~last'.results[1].live =>
            UNCHANGED <<entities, heap, pendingEntityFlush, immediates>> ]_vars

\* C10: an entity whose factory gave it no id gets the decimal string of the
\* smallest natural number that is no key of the live map when it is
\* inserted; after a start() on a snapshot that constructs one such entity,
\* and nothing else, the live map is exactly {"0"}.
C10_SmallestFreeId ==
    /\ last.op = "resolve" /\ heap[Result.obj].type \in {"auto", "bare"} =>
           \E n \in 0..Len(heap) :
               /\ Result.id = ToString(n)
               /\ Result.id \notin Result.before
               /\ \A m \in 0..(n - 1) : ToString(m) \in Result.before
    /\ ( /\ started /\ ops = 1 /\ promises = <<>>
         /\ Len(heap) = 1 /\ heap[1].type \in {"auto", "bare"} /\ heap[1].killTime = 0 )
       => DOMAIN entities = {"0"} /\ entities["0"] = 1

\* C11: on a started registry a newEntity for a record whose type has no
\* factory is rejected in the call, and one whose factory rejects is rejected
\* when the factory's promise is; neither the call nor the rejection changes
\* the live map, the entity objects, the pending-flush flag, the scheduled
\* callbacks or the store, and neither calls the store's modify.
C11_FailedNewEntityChangesNothing ==
    [][ /\ ( /\ started
             /\ last'.op = "newEntity"
             /\ last'.did.factory = 0 ) =>
               /\ last'.results = <<[kind |-> "rejected"]>>
               /\ last'.did.modify = 0
               /\ UNCHANGED <<entities, keyOrder, heap, promises, pendingEntityFlush,
                              immediates, entityData>>
        /\ ( /\ started
             /\ last'.op = "newEntity"
             /\ Len(promises') > Len(promises)
             /\ promises'[Len(promises')].data.type = "failing" ) =>
               /\ last'.results = <<>>
               /\ last'.did.modify = 0
               /\ UNCHANGED <<entities, keyOrder, heap, pendingEntityFlush,
                              immediates, entityData>>
        /\ last'.op = "reject" =>
               /\ last'.results = <<[kind |-> "rejected"]>>
               /\ last'.did.modify = 0
               /\ last'.did.onKills = 0
               /\ UNCHANGED <<entities, keyOrder, heap, pendingEntityFlush,
                              immediates, entityData>> ]_vars

C11_Witness ==
    /\ started
    /\ last.op = "reject"
    /\ ops = MaxOps
    /\ entities # EmptyMap
    /\ ~pendingEntityFlush

\* The records of a snapshot that have a factory.
WithFactory(records) == {i \in 1..Len(records) : records[i].type \in entityTypes}

\* C12: a reset calls the factory of every record of the snapshot that has
\* one and rejects the others, whatever fails among them; an entity whose
\* factory resolves is live when its promise has resolved; and no rejected
\* promise is left without a handler.
C12_ResetBatchSurvivesFailures ==
    /\ last.did.resets = 1 =>
           /\ last.did.factory = Cardinality(WithFactory(entityData))
           /\ Len(last.results) = Len(entityData) - Cardinality(WithFactory(entityData))
    /\ last.op = "resolve" =>
           /\ Result.obj \in LiveObjects
           /\ ~heap[Result.obj].killed
    /\ last.did.unhandled = 0

\* C13: killAllEntities() on a started registry empties the live map, sets
\* killed on every entity that was live and invokes onKill once on each and
\* on no other; when the deferred callbacks run next and make no mark of
\* their own, they call the store's modify exactly once.
C13_KillAllThenOneWrite ==
    [][ /\ (started /\ last'.op = "killAllEntities") =>
               /\ entities' = EmptyMap
               /\ keyOrder' = <<>>
               /\ pendingEntityFlush'
               /\ last'.did.onKills = Cardinality(LiveObjects)
               /\ \A v \in LiveObjects :
                      heap'[v].killed /\ heap'[v].onKills = 1 /\ ~heap'[v].onKillLive
               /\ \A v \in Objects \ LiveObjects : heap'[v] = heap[v]
        /\ ( /\ started
             /\ last.op = "killAllEntities"
             /\ last'.op = "immediates"
             /\ last'.results[1].inner = 0 ) =>
               /\ last'.results[1].writes = 1
               /\ last'.did.modify = 1
               /\ entityData' = <<>>
               /\ ~pendingEntityFlush' ]_vars

C13_Witness ==
    /\ started
    /\ last.op = "killAllEntities"
    /\ last.did.onKills = 2
    /\ entities = EmptyMap
    /\ \E v, w \in Objects : v # w /\ heap[v].onKills = 1 /\ heap[w].onKills = 1

\* The ids a successful newEntity has assigned to an entity that has not been
\* killed since.
AssignedIds == { heap[v].id : v \in {w \in Objects : heap[w].inserted /\ ~heap[w].killed} }

\* C14: the keys of the live map are the ids assigned by a successful
\* newEntity and not killed since, one entry for each: an insertion adds its
\* id to the keys there were, a killEntity(id) leaves id out of them.
C14_LiveCountIsAssignedIds ==
    /\ DOMAIN entities = AssignedIds
    /\ Cardinality(DOMAIN entities) = Cardinality(AssignedIds)
    /\ Cardinality(LiveObjects) = Cardinality(DOMAIN entities)
    /\ \A k \in DOMAIN entities : heap[entities[k]].id = k
    /\ last.op = "resolve" => DOMAIN entities = Result.before \cup {Result.id}
    /\ last.op = "killEntity" => Result.id \notin DOMAIN entities

C14_Witness ==
    /\ started
    /\ last.op = "killEntity"
    /\ Result.live
    /\ promises = <<>>
    /\ Cardinality(DOMAIN entities) = 1
    /\ \E v \in Objects : heap[v].inserted /\ heap[v].killed

\* The check of entity v waits in the setImmediate queue.
CheckQueued(v) == \E i \in 1..Len(immediates) : immediates[i] = [cb |-> "check", obj |-> v]

\* C15: an entity that is not killed and has a killTime always has a check
\* scheduled (in the setImmediate queue or on a timer); and when a check of
\* a live entity runs, from the queue or from its timer, at or after its
\* killTime, the entity is killed, is out of the live map and has had its
\* onKill, in that step of the event loop.
C15_ExpiredEntityIsKilledByItsCheck ==
    /\ [](\A v \in Objects :
             ~heap[v].killed /\ heap[v].killTime # 0 =>
                 CheckQueued(v) \/ heap[v].timers # {})
    /\ [][ \A v \in LiveObjects :
               ( /\ heap[v].killTime # 0
                 /\ now >= heap[v].killTime
                 /\ \/ last'.op = "immediates" /\ CheckQueued(v)
                    \/ last'.op = "timer" /\ last'.results[1].obj = v ) =>
                   /\ heap'[v].killed
                   /\ v \notin {entities'[k] : k \in DOMAIN entities'}
                   /\ heap'[v].onKills = 1
                   /\ last'.did.onKills >= 1 ]_vars

C15_Witness ==
    /\ last.op = "timer"
    /\ last.did.onKills = 1
    /\ now = FreshTime
    /\ heap[Result.obj].killTime = FreshTime
    /\ heap[Result.obj].inserted
    /\ heap[Result.obj].killed
    /\ heap[Result.obj].timers = {FreshTime + KillRetryInterval}

\* C16: the marks that killEntity, killAllEntities and an insertion make on a
\* started registry are followed by a run of saveToDynamicData(): when the
\* deferred callbacks of their tick have run, the store has been written at
\* least once since those calls.
C16_MutationIsFlushed ==
    last.op = "immediates" /\ Result.marks >= 1 => Result.writes >= 1

\* C17: an entity built, through the factory of its type, from the save data
\* of an entity e has save data equal to e's in type, createTime and
\* killTime, whenever it is built; the ids are not compared.
C17_SaveDataRoundTrip ==
    last.op = "newEntitySaved" /\ started =>
        /\ promises # <<>>
        /\ promises[Len(promises)].data = ToSaveData(heap[Result.obj])
        /\ promises[Len(promises)].obj # 0
        /\ promises[Len(promises)].obj # Result.obj
        /\ ToSaveData(heap[promises[Len(promises)].obj]) = ToSaveData(heap[Result.obj])

C17_Witness ==
    /\ last.op = "newEntitySaved"
    /\ started
    /\ now > StartTime
    /\ heap[Result.obj].createTime = StartTime
    /\ heap[Result.obj].killTime = FreshTime
    /\ heap[promises[Len(promises)].obj].createTime = StartTime

DeadHookIsNoOp ==
    last.op \in {"kill", "updated"} /\ Result.dead /\ heap[Result.obj].type # "base" =>
        /\ last.did = NoCounts
        /\ DOMAIN entities = Result.live
        /\ pendingEntityFlush = Result.flag
        /\ Len(immediates) = Result.queued

DeadHookCalled ==
    last.op \in {"kill", "updated"} /\ Result.dead /\ heap[Result.obj].type # "base"

\* The snapshot holds the save data of the live entities, each once, and
\* nothing else.
SnapshotIsLive ==
    /\ Len(entityData) = Cardinality(DOMAIN entities)
    /\ \A i \in 1..Len(entityData) :
           Cardinality({j \in 1..Len(entityData) : entityData[j] = entityData[i]})
             = Cardinality({k \in DOMAIN entities :
                               ToSaveData(heap[entities[k]]) = entityData[i]})

\* C19: a saveToDynamicData() on a started registry, called directly or by
\* the deferred flush, leaves in the store exactly the save data of the live
\* entities (nothing of pending or failed constructions), runs no reset
\* (the guard is set while the store notifies), changes no entity, and
\* returns with the guard and the pending flag false; the registry changes
\* the store in no other step.
C19_SaveWritesLiveEntities ==
    [][ /\ last'.op = "saveToDynamicData" /\ started =>
               /\ last'.did.modify = 1
               /\ last'.did.resets = 0
               /\ SnapshotIsLive'
               /\ ~duringOurModification'
               /\ ~pendingEntityFlush'
               /\ UNCHANGED <<entities, keyOrder, heap, promises>>
        /\ last'.op = "immediates" /\ last'.did.modify >= 1 =>
               /\ last'.did.resets = 0
               /\ ~duringOurModification'
               /\ ~pendingEntityFlush' \/ last'.results[1].inner >= 1
               /\ last'.did.onKills = 0 => SnapshotIsLive'
        /\ entityData' # entityData =>
               last'.did.modify >= 1 \/ last'.op = "notify" ]_vars

C19_Witness ==
    /\ last.op = "saveToDynamicData"
    /\ started
    /\ last.did.modify = 1
    /\ Cardinality(DOMAIN entities) = 1
    /\ promises # <<>>
    /\ entityData = <<[type |-> "bare", createTime |-> 100, killTime |-> 0]>>

\* The records of a snapshot that have a factory, in the snapshot's order.
FactoryRecords(records) == SelectSeq(records, LAMBDA r : r.type \in entityTypes)

\* The promises a step has added, oldest first.
NewPromises == SubSeq(promises', Len(promises) + 1, Len(promises'))

\* C20: a reset calls the factories in the order of the snapshot's records, so
\* the pending constructions it leaves are in that order; whichever of the
\* pending constructions completes next, its entity becomes the entry of its
\* id, every entry under another id stays as it was and unkilled, and the
\* entity that was live under the same id is killed and out of the map.
C20_AnyCompletionOrder ==
    [][ /\ last'.did.resets = 1 =>
               /\ Len(NewPromises) = Len(FactoryRecords(entityData'))
               /\ \A i \in 1..Len(NewPromises) :
                      /\ NewPromises[i].data = FactoryRecords(entityData')[i]
                      /\ \A j \in 1..Len(NewPromises) :
                             i < j /\ NewPromises[i].obj # 0 /\ NewPromises[j].obj # 0
                                 => NewPromises[i].obj < NewPromises[j].obj
        /\ last'.op = "resolve" =>
               LET r == last'.results[1]
               IN  /\ DOMAIN entities' = DOMAIN entities \cup {r.id}
                   /\ entities'[r.id] = r.obj
                   /\ ~heap'[r.obj].killed
                   /\ \A k \in DOMAIN entities \ {r.id} :
                          entities'[k] = entities[k] /\ heap'[entities[k]] = heap[entities[k]]
                   /\ r.id \in DOMAIN entities =>
                          /\ heap'[entities[r.id]].killed
                          /\ entities[r.id] \notin {entities'[k] : k \in DOMAIN entities'}
                   /\ r.id \notin DOMAIN entities => last'.did.onKills = 0 ]_vars

\* The first record's construction completes after the second's, on one id.
C20_Witness ==
    /\ ops = 1
    /\ entityData = <<RecNamed, RecNamed>>
    /\ last.op = "resolve"
    /\ Result.obj = 1
    /\ Result.replaced = 2
    /\ entities = (NamedId :> 1)
    /\ heap[2].killed
    /\ heap[2].inserted

\* The second record's construction completes first, on ids of their own.
OutOfOrderBothLive ==
    /\ ops = 1
    /\ last.op = "resolve"
    /\ DOMAIN entities = {"0", "1"}
    /\ entities["0"] = 2
    /\ entities["1"] = 1

\* The entity objects of the factory calls that have not settled.
PendingObjects == { promises[i].obj : i \in 1..Len(promises) } \ {0}

\* C21: a killEntity or killAllEntities leaves every pending construction as
\* it is (its promise stays, its entity is not killed); a pending entity is
\* never killed or in the live map; and when its factory resolves, at any
\* later time, the entity is inserted and live under its id and the entity
\* that was live there is killed.
C21_KillDoesNotCancelPending ==
    /\ [](\A v \in PendingObjects : ~heap[v].killed /\ ~heap[v].inserted /\ v \notin LiveObjects)
    /\ [][ /\ last'.op \in {"killEntity", "killAllEntities"} =>
                  /\ promises' = promises
                  /\ \A v \in PendingObjects : heap'[v] = heap[v]
           /\ last'.op = "resolve" =>
                  LET r == last'.results[1]
                  IN  /\ r.obj \in PendingObjects
                      /\ heap'[r.obj].inserted
                      /\ ~heap'[r.obj].killed
                      /\ r.id \in DOMAIN entities'
                      /\ entities'[r.id] = r.obj
                      /\ r.replaced # 0 => heap'[r.replaced].killed ]_vars

\* The second of two constructions resolves after a kill has removed the
\* first while the second was pending.
C21_Witness ==
    /\ last.op = "resolve"
    /\ Len(heap) = 2
    /\ Result.obj = 2
    /\ Result.replaced = 0
    /\ heap[1].killed
    /\ heap[1].inserted
    /\ entities = (NamedId :> 2)
    /\ ~heap[2].killed

\* The entities whose check waits in the setImmediate queue and, when it
\* runs now, finds the entity unkilled and its killTime not reached.
EarlyChecks ==
    { v \in Objects : CheckQueued(v) /\ ~heap[v].killed
                        /\ heap[v].killTime # 0 /\ now < heap[v].killTime }

\* The entities whose queued check would call kill() when it runs now.
DueChecks ==
    { v \in Objects : CheckQueued(v) /\ ~heap[v].killed
                        /\ heap[v].killTime # 0 /\ now >= heap[v].killTime }

\* C22: a check that runs before killTime calls no kill() and sets its next
\* timer at exactly killTime (the remaining interval from now); a check phase
\* or timer step in which no check is due kills nothing; and an entity whose
\* killTime is 0 (absent in its record, or 0) never has a check queued or a
\* timer set.
C22_NoKillBeforeKillTime ==
    /\ [](\A v \in Objects :
             heap[v].killTime = 0 => ~CheckQueued(v) /\ heap[v].timers = {})
    /\ [][ /\ last'.op = "immediates" =>
                  /\ \A v \in EarlyChecks :
                         /\ heap'[v].timers = heap[v].timers \cup {heap[v].killTime}
                         /\ heap'[v].onKills = heap[v].onKills
                  /\ DueChecks = {} =>
                         /\ last'.did.onKills = 0
                         /\ entities' = entities
           /\ last'.op = "timer" =>
                  LET v == last'.results[1].obj
                  IN  /\ heap[v].killTime # 0
                      /\ now < heap[v].killTime /\ ~heap[v].killed =>
                             /\ last'.did.onKills = 0
                             /\ entities' = entities
                             /\ immediates' = immediates
                             /\ heap[v].killTime \in heap'[v].timers
                      /\ last'.did.onKills >= 1 => now >= heap[v].killTime ]_vars

C22_Witness ==
    /\ last.op = "immediates"
    /\ last.did.onKills = 0
    /\ now < FreshTime
    /\ \E v \in LiveObjects :
           /\ heap[v].killTime = FreshTime
           /\ heap[v].timers = {FreshTime}
           /\ ~heap[v].killed

\* The checks of entity v that are scheduled: queued callbacks and timers.
ChecksPending(v) ==
    Cardinality({i \in 1..Len(immediates) : immediates[i] = [cb |-> "check", obj |-> v]})
      + Cardinality(heap[v].timers)

\* C23: an entity has at most one check scheduled at any time; the check that
\* runs on a killed entity calls no kill(), marks nothing and schedules
\* nothing, so none is scheduled afterwards, and none is scheduled later.
C23_CheckChainEndsAtDeath ==
    /\ [](\A v \in Objects : ChecksPending(v) <= 1)
    /\ [][ /\ last'.op = "immediates" =>
                  \A v \in Objects :
                      heap[v].killed /\ CheckQueued(v) =>
                          heap'[v] = heap[v] /\ ChecksPending(v)' = 0
           /\ \A v \in Objects :
                  last'.op = "timer" /\ last'.results[1].obj = v /\ heap[v].killed =>
                  /\ ChecksPending(v)' = 0
                  /\ last'.did = NoCounts
                  /\ UNCHANGED <<entities, keyOrder, immediates, pendingEntityFlush,
                                 entityData, promises>>
           /\ \A v \in Objects :
                  heap[v].killed /\ ChecksPending(v) = 0 => ChecksPending(v)' = 0 ]_vars

C23_Witness ==
    /\ last.op = "timer"
    /\ last.did = NoCounts
    /\ heap[Result.obj].killed
    /\ heap[Result.obj].onKills = 1
    /\ heap[Result.obj].killTime # 0
    /\ ChecksPending(Result.obj) = 0

\* The queued check of an entity that a call has killed finds it dead.
DeadBeforeFirstCheck ==
    /\ last.op = "immediates"
    /\ now = StartTime
    /\ \E v \in Objects :
           heap[v].killed /\ heap[v].killTime # 0 /\ ChecksPending(v) = 0

\* C24: an entity object comes into the live map only in the step in which
\* the promise of the factory of its type resolves with it (it was pending
\* before the step and is not after); no pending entity is in the live map;
\* and when newEntity's result resolves, the entity is in the live map, the
\* pending flag is set and the flush callback is queued.
C24_InsertedOnlyWhenResolved ==
    /\ [](\A v \in PendingObjects : v \notin LiveObjects)
    /\ [][ \A v \in {entities'[k] : k \in DOMAIN entities'} \ LiveObjects :
               /\ last'.op = "resolve"
               /\ last'.results[1].obj = v
               /\ \E i \in 1..Len(promises) :
                      /\ promises[i].obj = v
                      /\ promises[i].data.type = heap[v].type
                      /\ promises[i].data.type \in entityTypes
               /\ \A i \in 1..Len(promises') : promises'[i].obj # v ]_vars
    /\ [](last.op = "resolve" =>
             /\ Result.kind = "resolved"
             /\ Result.obj \in LiveObjects
             /\ heap[Result.obj].inserted
             /\ pendingEntityFlush
             /\ immediates # <<>>
             /\ immediates[Len(immediates)] = [cb |-> "flush"])

\* One construction has resolved and is live while another is pending.
C24_Witness ==
    /\ last.op = "resolve"
    /\ Result.obj \in LiveObjects
    /\ PendingObjects # {}
    /\ Cardinality(LiveObjects) = 1
    /\ pendingEntityFlush

\* C25: the save data of an entity equals the record it was constructed
\* from, field by field: the same fields with the same values.  Taken for the
\* records that have a createTime; without one the constructor stamps the
\* current time.
C25_RecordRoundTrip ==
    \A i \in 1..Len(promises) :
        promises[i].obj # 0 /\ "createTime" \in DOMAIN promises[i].data =>
            ToSaveData(heap[promises[i].obj]) = promises[i].data

\* The part of C25 that holds: the fields a record has keep their values.
RecordFieldsKept ==
    \A i \in 1..Len(promises) :
        promises[i].obj # 0 =>
            \A f \in DOMAIN promises[i].data :
                ToSaveData(heap[promises[i].obj])[f] = promises[i].data[f]

\* C26: an entity constructed from a record has the record's createTime when
\* the record has one and the time of its construction otherwise; createTime
\* of an entity never changes; and an entity built from the save data of
\* another, at whatever time, has that entity's createTime.
C26_CreateTimeIsCarried ==
    [][ /\ \A i \in 1..Len(promises') :
               LET p == promises'[i]
               IN  p.obj # 0 /\ p.obj \notin Objects =>
                       heap'[p.obj].createTime =
                           IF "createTime" \in DOMAIN p.data THEN p.data.createTime ELSE now
        /\ \A v \in Objects : heap'[v].createTime = heap[v].createTime
        /\ last'.op = "newEntitySaved" /\ started =>
               /\ Len(heap') = Len(heap) + 1
               /\ heap'[Len(heap')].createTime = heap[last'.results[1].obj].createTime ]_vars

\* A second-generation entity, built after the clock has moved, from the save
\* data of one that was stamped when the registry started.
C26_Witness ==
    /\ last.op = "newEntitySaved"
    /\ started
    /\ now >= FreshTime
    /\ Len(heap) = 2
    /\ "createTime" \notin DOMAIN entityData[Len(entityData)]
    /\ heap[1].createTime = StartTime
    /\ heap[2].createTime = StartTime

\* The store still holds a snapshot no save has written: its records have no
\* killTime, and the save data of an entity always has one.
NeverSaved ==
    /\ entityData # <<>>
    /\ \A i \in 1..Len(entityData) : "killTime" \notin DOMAIN entityData[i]

\* C27: when every construction has settled and every reset so far has read
\* the same snapshot, the live map holds at most one entity per record of it.
C27_SupersededResetAddsNothing ==
    promises = <<>> /\ NeverSaved =>
        Cardinality(DOMAIN entities) <= Len(entityData)

\* Every record of the store's snapshot has a factory that resolves.
AllRegistered ==
    \A i \in 1..Len(entityData) : entityData[i].type \in entityTypes \ {"failing"}

\* Nothing is left to do: no construction and no flush is pending, and the
\* store holds the save data of the live entities.
Quiescent ==
    /\ promises = <<>>
    /\ ~pendingEntityFlush
    /\ \A i \in 1..Len(immediates) : immediates[i].cb # "flush"
    /\ SnapshotIsLive

\* C28: when the calls of the registry's callers and the other writers of the
\* store have ceased, the registry is started and the snapshot's records all
\* have a factory that resolves, then from some point on no construction and
\* no flush is pending and the store holds exactly the save data of the live
\* entities.
C28_ReachesQuiescence ==
    <>[](started /\ AllRegistered => Quiescent)

C28_Witness ==
    /\ Quiescent
    /\ started
    /\ ops = MaxOps
    /\ last.op = "immediates"
    /\ last.did.modify = 1
    /\ Cardinality(DOMAIN entities) = 2

\* The event loop has nothing queued and no construction is pending.
Drained == promises = <<>> /\ immediates = <<>>

\* Whenever the loop is drained on a started registry whose snapshot's
\* records all have a factory, the store holds the live entities' save data
\* and no flush is pending.
DrainedIsQuiescent ==
    started /\ AllRegistered /\ Drained => Quiescent

\* The entities whose queued check runs in the next check phase.
QueuedChecks == { v \in Objects : CheckQueued(v) }

\* The entities a step kills.
NewlyKilled == { v \in Objects : ~heap[v].killed /\ heap'[v].killed }

\* C29: a step of the event loop that runs entities' checks kills no entity
\* other than those whose check ran: the check phase kills only entities with
\* a check in the queue, a timer only the entity it belongs to.
C29_CheckKillsOnlyItsEntity ==
    [][ /\ last'.op = "immediates" => NewlyKilled \subseteq QueuedChecks
        /\ last'.op = "timer" => NewlyKilled \subseteq {last'.results[1].obj} ]_vars

\* The timer that fires next for entity v is a retry: one a check set after it
\* had found killTime reached and called kill() (the timer a check sets
\* before killTime is due at killTime itself).
RetryDue(v) ==
    /\ heap[v].killTime # 0
    /\ heap[v].timers # {}
    /\ \A t \in heap[v].timers : t > heap[v].killTime /\ now >= t

\* C30: the chain of checks of an expired entity ends: the retry that fires
\* after a check has called kill() finds the entity killed, or leaves it
\* killed, and a check of a killed entity schedules no other (C23); so after
\* a retry has fired the entity is killed or has no check scheduled.
C30_RetryEndsChain ==
    [][ \A v \in Objects :
            last'.op = "timer" /\ last'.results[1].obj = v /\ RetryDue(v) =>
            heap'[v].killed \/ ChecksPending(v)' = 0 ]_vars

\* Why the chain of an entity that is never inserted has no end: a check that
\* fires at or after killTime on an entity whose factory call is pending calls
\* kill(), which marks a flush, leaves the entity unkilled and sets the next
\* check KillRetryInterval later: the state it started from, but for the clock.
PendingCheckRepeats ==
    [][ \A v \in PendingObjects :
            /\ last'.op = "timer" /\ last'.results[1].obj = v
            /\ heap[v].killTime # 0 /\ now >= heap[v].killTime
            => /\ v \in PendingObjects'
               /\ ~heap'[v].killed
               /\ heap'[v].timers = {now + KillRetryInterval}
               /\ pendingEntityFlush'
               /\ batch'.marks = batch.marks + 1 ]_vars

\* C31: the insertion of an entity whose factory gave it no id kills nothing:
\* the id it is inserted under was no key of the live map, no entity is
\* replaced, no onKill runs and the live map has one entity more than before.
C31_InsertionWithoutIdKillsNothing ==
    last.op = "resolve" /\ heap[Result.obj].type \in {"auto", "bare"} =>
        /\ Result.id \notin Result.before
        /\ Result.replaced = 0
        /\ last.did.onKills = 0
        /\ Cardinality(DOMAIN entities) = Cardinality(Result.before) + 1

\* The part of it that holds: an object that lacks the id property is given
\* a free id, and its insertion kills nothing.
BareInsertionKillsNothing ==
    last.op = "resolve" /\ ~Result.hadId =>
        /\ Result.id \notin Result.before
        /\ Result.replaced = 0
        /\ last.did.onKills = 0
        /\ Cardinality(DOMAIN entities) = Cardinality(Result.before) + 1

====
